---- MODULE Spec2Model ----
(***************************************************************************)
(* Pricing and coupon engine of the Pakkhtun Biryani backend (src/main.py).*)
(*                                                                         *)
(* State: the "coupon" and "order" collections of the database, the sizes  *)
(* of the "menuitem" and "offer" collections (seed_data reads and fills    *)
(* them, the admin menu handlers grow and shrink the first), the requests  *)
(* in flight, each with the position its handler has reached and the       *)
(* handler's local variables, and the response sent by the latest step.    *)
(*                                                                         *)
(* The handlers are plain "def" functions: FastAPI runs each request on a  *)
(* worker thread, and nothing locks the database between two calls of one  *)
(* handler.  A step of the model is therefore one database call of one     *)
(* request, with the local computation that leads to it and follows it;    *)
(* the calls of requests in flight interleave in every order.              *)
(*                                                                         *)
(* Three specifications.  Spec is the running system: requests of a small  *)
(* representative set arrive at any time, at most MaxInFlight of them in   *)
(* flight together, while the order store holds fewer than MaxSystemOrders *)
(* orders.  SpecOrders is the order subsystem: previews, order requests    *)
(* and status updates interleaved, up to MaxOrders orders.  SpecPricing is *)
(* one pricing request, drawn from a wide input domain, handled call by    *)
(* call against each coupon store.                                         *)
(*                                                                         *)
(* Amounts are Python floats in the code.  Here an amount is the integer   *)
(* number of thousandths of a currency unit (600.00 is 600000, 12.5 is     *)
(* 12500).  Prices are whole units and coupon values are whole numbers or  *)
(* multiples of 12.5: on these the float arithmetic of the code is exact   *)
(* up to the final round(x, 2), which Round2 computes (round half to       *)
(* even, what Python does on a value that is exactly representable).       *)
(*                                                                         *)
(* Every database call of a handler may raise (store unavailable): each   *)
(* step chooses whether its call raises.  No handler catches, so the       *)
(* request ends with a server error (500) and whatever was written before  *)
(* stays written.  failAt of a response is the number of the call that     *)
(* raised, 0 when none did.                                                *)
(*                                                                         *)
(* Not modelled: created_at / updated_at time stamps, the pass-through     *)
(* order fields user_id, address and notes, the contents of menu items and *)
(* offers (only their number is read by a modelled handler), the OTP and   *)
(* user handlers (collections "otp" and "user" only), admin_update_menu    *)
(* (it changes no document count) and the GET handlers (read-only).        *)
(***************************************************************************)
EXTENDS Integers, Sequences, FiniteSets, Bags, TLC

VARIABLES coupons, orders, menuitems, offers, inflight, last

vars == <<coupons, orders, menuitems, offers, inflight, last>>

----------------------------------------------------------------------------
(* Bounds *)

MaxItems == 2

MaxOrders == 2

MaxSystemOrders == 1

MaxInFlight == 2

MaxMenu == 1

----------------------------------------------------------------------------
(* Amounts *)

\* u whole currency units as an amount (thousandths).
Amt(u) == u * 1000

Max(a, b) == IF a >= b THEN a ELSE b

\* round(x, 2) for x >= 0: to the nearest hundredth, a tie to the even one.
Round2(x) ==
    LET q == x \div 10
        r == x % 10
    IN  IF r < 5 THEN 10 * q
        ELSE IF r > 5 THEN 10 * (q + 1)
        ELSE IF q % 2 = 0 THEN 10 * q
        ELSE 10 * (q + 1)

RECURSIVE SumPrices(_)
\* sum([i.total_price for i in payload.items])
SumPrices(items) ==
    IF items = <<>> THEN 0
    ELSE Head(items).total_price + SumPrices(Tail(items))

----------------------------------------------------------------------------
(* Coupon codes: strings as sequences of characters *)

LowerLetters ==
    <<"a", "b", "c", "d", "e", "f", "g", "h", "i", "j", "k", "l", "m",
      "n", "o", "p", "q", "r", "s", "t", "u", "v", "w", "x", "y", "z">>

UpperLetters ==
    <<"A", "B", "C", "D", "E", "F", "G", "H", "I", "J", "K", "L", "M",
      "N", "O", "P", "Q", "R", "S", "T", "U", "V", "W", "X", "Y", "Z">>

UpperChar(ch) ==
    IF \E i \in DOMAIN LowerLetters : LowerLetters[i] = ch
    THEN UpperLetters[CHOOSE i \in DOMAIN LowerLetters : LowerLetters[i] = ch]
    ELSE ch

\* str.upper()
Upper(s) == [i \in DOMAIN s |-> UpperChar(s[i])]

\* coupon_code: Optional[str] = None
None == <<"None">>

\* Python truthiness of an Optional[str]: None and "" are falsy.
Truthy(code) == code # None /\ code # <<>>

PAKKTUN15 == <<"P", "A", "K", "K", "T", "U", "N", "1", "5">>

----------------------------------------------------------------------------
(* The coupon collection *)

\* The coupon seed_data creates.
SeedCoupon ==
    [code |-> PAKKTUN15, description |-> "15% off on orders above ₹499",
     type |-> "percent", value |-> Amt(15), min_order |-> Amt(499),
     active |-> TRUE]

\* A coupon collection as an administrator may have filled it: documents of
\* schema Coupon, in insertion order.  The schema takes any string as code
\* and keeps it as sent: one document is stored under a lower-case code.
Catalogue ==
    << SeedCoupon,
       [code |-> <<"F", "L", "A", "T", "5", "0">>, description |-> "old flat",
        type |-> "flat", value |-> Amt(999), min_order |-> 0,
        active |-> FALSE],
       [code |-> <<"F", "L", "A", "T", "5", "0">>, description |-> "50 off",
        type |-> "flat", value |-> Amt(50), min_order |-> Amt(2),
        active |-> TRUE],
       [code |-> <<"M", "E", "G", "A">>, description |-> "112.5%",
        type |-> "percent", value |-> 112500, min_order |-> 0,
        active |-> TRUE],
       [code |-> <<"O", "L", "D">>, description |-> "expired",
        type |-> "percent", value |-> Amt(10), min_order |-> 0,
        active |-> FALSE],
       [code |-> <<"s", "a", "v", "e">>, description |-> "10 off",
        type |-> "flat", value |-> Amt(10), min_order |-> 0,
        active |-> TRUE],
       [code |-> <<"Z", "E", "R", "O">>, description |-> "nothing off",
        type |-> "flat", value |-> 0, min_order |-> 0,
        active |-> TRUE] >>

\* Coupon documents of schema Coupon: both kinds, a stored code in upper and
\* one in lower case, values of 0, 15 and 112.5, active or not.
CouponDocs ==
    [code : {PAKKTUN15, <<"s", "a", "v", "e">>},
     description : {"offer"},
     type : {"flat", "percent"},
     value : {0, Amt(15), 112500},
     min_order : {0, Amt(499)},
     active : BOOLEAN]

\* The coupon stores of Spec: empty (seed_data fills it) or the catalogue.
SystemStores == {<<>>, Catalogue}

\* The coupon stores of SpecPricing: those, the seeded store and every store
\* of one document.
CouponStores ==
    SystemStores \cup {<<SeedCoupon>>} \cup {<<c>> : c \in CouponDocs}

NoDoc == [none |-> TRUE]

\* db["coupon"].find_one({"code": code, "active": True}): the first document
\* that matches, or None.
FindOne(store, code) ==
    LET hits == {i \in DOMAIN store :
                    store[i].code = code /\ store[i].active = TRUE}
    IN  IF hits = {} THEN NoDoc
        ELSE store[CHOOSE i \in hits : \A j \in hits : i <= j]

\* db["coupon"].find_one({"code": payload.code.upper(), "active": True})
FindActiveCoupon(store, code) == FindOne(store, Upper(code))

\* Mutant: the minimum order is not checked.
EligibleAlways(c, subtotal) == TRUE

\* subtotal >= float(c.get("min_order", 0))
Eligible(c, subtotal) == subtotal >= c.min_order

\* Mutant: the two kinds are taken for each other.
DiscountKindsSwapped(c, subtotal) ==
    IF c.type = "percent" THEN c.value
    ELSE ((subtotal \div 100) * (c.value \div 100)) \div 10

\* Mutant: the discount is capped at the subtotal.
DiscountCapped(c, subtotal) ==
    LET d == IF c.type = "flat" THEN c.value
             ELSE ((subtotal \div 100) * (c.value \div 100)) \div 10
    IN  IF d <= subtotal THEN d ELSE subtotal

\* float(c["value"]) if flat else subtotal * float(c["value"]) / 100.0,
\* unrounded.  Amounts here have at most one decimal, so the quotient is exact.
DiscountOf(c, subtotal) ==
    IF c.type = "flat" THEN c.value
    ELSE ((subtotal \div 100) * (c.value \div 100)) \div 10

\* Mutant: the fee is charged whatever the delivery type.
DeliveryFeeAlways(delivery_type) == Amt(20)

\* 0 if payload.delivery_type == "takeaway" else 20
DeliveryFeeOf(delivery_type) ==
    IF delivery_type = "takeaway" THEN 0 ELSE Amt(20)

\* Mutant: the total is not floored at 0.
TotalNoFloor(subtotal, discount, delivery_fee) ==
    subtotal - discount + delivery_fee

\* max(0.0, subtotal - discount + delivery_fee)
TotalOf(subtotal, discount, delivery_fee) ==
    Max(0, subtotal - discount + delivery_fee)

\* Mutant: only a missing list is refused (if payload.items is None).
NoItemsIsNone(items) == FALSE

\* if not payload.items
NoItems(items) == Len(items) = 0


----------------------------------------------------------------------------
(* Requests and responses *)

\* What a handler answered: the request, the call that raised (failAt, 0 when
\* none did), the HTTP status, the error detail, the response body and the
\* number of database calls the handler started.
Response(op, req, failAt, status, detail, body, dbcalls) ==
    [op |-> op, req |-> req, failAt |-> failAt, status |-> status,
     detail |-> detail, body |-> body, dbcalls |-> dbcalls]

\* No response: the latest step sent none.
NoRequest == Response("none", NoDoc, 0, 0, "", NoDoc, 0)

\* An exception no handler catches: FastAPI answers 500.
ServerError == "Internal Server Error"

\* A request the server has accepted, before its handler's first statement:
\* pc is the handler's position, calls the number of database calls made,
\* failAt the call at which the store was unavailable (0: at none so far),
\* c the coupon create_order found, oid the id of the order it inserted.
Started(op, req) ==
    [op |-> op, req |-> req, failAt |-> 0, pc |-> "start", calls |-> 0,
     c |-> NoDoc, oid |-> 0]

\* The requests in flight.
InFlight == BagToSet(inflight)

\* The requests in flight other than r.
Without(r) == inflight (-) SetToBag({r})

\* The handler goes on to its next database call: r becomes r2.
Goes(rest, r2) ==
    /\ inflight' = rest (+) SetToBag({r2})
    /\ last' = NoRequest

\* The handler returns or raises: the request leaves with its response.
Reply(rest, resp) ==
    /\ inflight' = rest
    /\ last' = resp

\* Mutant: the handler catches the exception and goes on without a coupon.
CouponLookupSwallowed(store, code, fails) ==
    [raised |-> FALSE,
     doc |-> IF fails THEN NoDoc ELSE FindOne(store, Upper(code))]

\* A find_one on the coupon collection by a handler: it raises when the store
\* is unavailable (fails), and the handler does not catch.
CouponLookup(store, code, fails) ==
    [raised |-> fails,
     doc |-> IF fails THEN NoDoc ELSE FindActiveCoupon(store, code)]

----------------------------------------------------------------------------
(* POST /cart/apply-coupon: one database call *)

\* Mutant: a subtotal below the minimum order is refused as a client error.
ApplyCouponIneligibleIsError(store, code, subtotal, failAt) ==
    LET req == [code |-> code, subtotal |-> subtotal]
        found == \E i \in DOMAIN store :
                    store[i].code = Upper(code) /\ store[i].active
        c == FindOne(store, Upper(code))
    IN  IF failAt = 1
        THEN Response("apply_coupon", req, failAt, 500, ServerError, NoDoc, 1)
        ELSE IF ~found
        THEN Response("apply_coupon", req, failAt, 404, "Coupon not found",
                      NoDoc, 1)
        ELSE IF subtotal < c.min_order
        THEN Response("apply_coupon", req, failAt, 400,
                      "Minimum order not met", NoDoc, 1)
        ELSE Response("apply_coupon", req, failAt, 200, "",
                      [applied |-> TRUE,
                       discount |-> Round2(IF c.type = "flat" THEN c.value
                                           ELSE ((subtotal \div 100)
                                                 * (c.value \div 100))
                                                \div 10),
                       code |-> c.code, detail |-> c.description], 1)

ApplyCouponResponse(store, code, subtotal, failAt) ==
    LET req == [code |-> code, subtotal |-> subtotal]
        lk == CouponLookup(store, code, failAt = 1)
        c == lk.doc
    IN  IF lk.raised
        THEN Response("apply_coupon", req, failAt, 500, ServerError, NoDoc, 1)
        ELSE IF c = NoDoc
        THEN Response("apply_coupon", req, failAt, 404, "Coupon not found",
                      NoDoc, 1)
        ELSE IF subtotal < c.min_order
        THEN Response("apply_coupon", req, failAt, 200, "",
                      [applied |-> FALSE, discount |-> 0,
                       reason |-> "Minimum order not met"], 1)
        ELSE Response("apply_coupon", req, failAt, 200, "",
                      [applied |-> TRUE,
                       discount |-> Round2(DiscountOf(c, subtotal)),
                       code |-> c.code, detail |-> c.description], 1)

\* Mutant: the preview redeems the coupon it applies (active becomes false).
ApplyCouponRedeems(rest, r, fails) ==
    LET resp == ApplyCouponResponse(coupons, r.req.code, r.req.subtotal,
                                    IF fails THEN 1 ELSE 0)
        applied == resp.status = 200 /\ resp.body.applied
    IN  /\ Reply(rest, resp)
        /\ coupons' = [i \in DOMAIN coupons |->
                         IF applied /\ coupons[i].code = resp.body.code
                         THEN [coupons[i] EXCEPT !.active = FALSE]
                         ELSE coupons[i]]
        /\ UNCHANGED <<orders, menuitems, offers>>

\* The handler on request r, the other requests in flight being rest; fails
\* says whether the store is unavailable at this call.
ApplyCoupon(rest, r, fails) ==
    /\ Reply(rest, ApplyCouponResponse(coupons, r.req.code, r.req.subtotal,
                                       IF fails THEN 1 ELSE 0))
    /\ UNCHANGED <<coupons, orders, menuitems, offers>>

----------------------------------------------------------------------------
(* POST /orders: up to three database calls *)

\* The amounts create_order computes from the request and the coupon c its
\* lookup returned (NoDoc: none found, or no code sent), before rounding.
Priced(req, c) ==
    LET subtotal == SumPrices(req.items)
        delivery_fee == DeliveryFeeOf(req.delivery_type)
        discount == IF c # NoDoc /\ Eligible(c, subtotal)
                    THEN DiscountOf(c, subtotal) ELSE 0
    IN  [subtotal |-> subtotal, discount |-> discount,
         delivery_fee |-> delivery_fee,
         total |-> TotalOf(subtotal, discount, delivery_fee)]

\* The Order document create_order builds, with the id the store gives it.
OrderDoc(id, req, subtotal, discount, delivery_fee, total) ==
    [id |-> id,
     phone |-> req.phone,
     items |-> req.items,
     subtotal |-> subtotal,
     discount |-> Round2(discount),
     delivery_fee |-> delivery_fee,
     total |-> Round2(total),
     delivery_type |-> req.delivery_type,
     payment_method |-> req.payment_method,
     payment_status |-> IF req.payment_method = "cod" THEN "cod" ELSE "pending",
     status |-> "pending",
     eta_minutes |-> 35,
     coupon_code |-> req.coupon_code]

\* create_document("order", order_doc): the handler, holding the coupon r.c,
\* builds the order and inserts it.
CreateOrderInsert(rest, r, fails) ==
    LET call == r.calls + 1
        p == Priced(r.req, r.c)
        doc == OrderDoc(Len(orders) + 1, r.req, p.subtotal, p.discount,
                        p.delivery_fee, p.total)
    IN  IF fails
        THEN /\ Reply(rest, Response("create_order", r.req, call, 500,
                                     ServerError, NoDoc, call))
             /\ UNCHANGED <<coupons, orders, menuitems, offers>>
        ELSE /\ orders' = Append(orders, doc)
             /\ Goes(rest, [r EXCEPT !.pc = "readback", !.calls = call,
                                     !.oid = doc.id])
             /\ UNCHANGED <<coupons, menuitems, offers>>

\* From the first statement to the first database call: the coupon lookup
\* when a code was sent, the insert otherwise.
CreateOrderStart(rest, r, fails) ==
    IF NoItems(r.req.items)
    THEN /\ Reply(rest, Response("create_order", r.req, r.failAt, 400,
                                 "No items", NoDoc, 0))
         /\ UNCHANGED <<coupons, orders, menuitems, offers>>
    ELSE IF Truthy(r.req.coupon_code)
    THEN LET lk == CouponLookup(coupons, r.req.coupon_code, fails)
         IN  /\ IF lk.raised
                THEN Reply(rest, Response("create_order", r.req, 1, 500,
                                          ServerError, NoDoc, 1))
                ELSE Goes(rest, [r EXCEPT !.pc = "insert", !.calls = 1,
                                          !.failAt = IF fails THEN 1 ELSE 0,
                                          !.c = lk.doc])
             /\ UNCHANGED <<coupons, orders, menuitems, offers>>
    ELSE CreateOrderInsert(rest, r, fails)

\* db["order"].find_one({"_id": ObjectId(oid)}) and the response: the order
\* as the store holds it now, the payment amount from the handler's own
\* order_doc.
CreateOrderReadBack(rest, r, fails) ==
    LET call == r.calls + 1
        p == Priced(r.req, r.c)
        payment == IF r.req.payment_method \in {"razorpay", "upi"}
                   THEN [gateway |-> r.req.payment_method, order_id |-> r.oid,
                         amount |-> Round2(p.total)]
                   ELSE NoDoc
    IN  /\ Reply(rest,
                 IF fails
                 THEN Response("create_order", r.req, call, 500,
                               ServerError, NoDoc, call)
                 ELSE Response("create_order", r.req, r.failAt, 200, "",
                               [order |-> orders[r.oid], payment |-> payment],
                               call))
        /\ UNCHANGED <<coupons, orders, menuitems, offers>>

\* The next step of the handler on request r; fails says whether the store
\* is unavailable at the database call of this step.
CreateOrder(rest, r, fails) ==
    CASE r.pc = "start" -> CreateOrderStart(rest, r, fails)
      [] r.pc = "insert" -> CreateOrderInsert(rest, r, fails)
      [] r.pc = "readback" -> CreateOrderReadBack(rest, r, fails)

----------------------------------------------------------------------------
(* POST /admin/orders/{order_id}/status: two database calls *)

\* order_id is a path string: valid says whether ObjectId(order_id) accepts
\* it, oid which document it names (a position in the order store; 0 for an
\* id no order has).
MalformedId == [valid |-> FALSE, oid |-> 0]

OrderId(n) == [valid |-> TRUE, oid |-> n]

\* The next step of the handler on request r: update_one at "start",
\* find_one and the response at "readback".
UpdateOrderStatus(rest, r, fails) ==
    LET oid == r.req.order_id.oid
        status == r.req.status
        call == r.calls + 1
        found == oid \in DOMAIN orders
        updated ==
            IF ~found THEN orders
            ELSE [orders EXCEPT ![oid] =
                    [@ EXCEPT !.status = status,
                              !.eta_minutes =
                                  IF status = "out_for_delivery" THEN 15
                                  ELSE @]]
    IN  IF ~r.req.order_id.valid
        THEN /\ Reply(rest, Response("update_order_status", r.req, r.failAt,
                                     400, "Invalid id", NoDoc, 0))
             /\ UNCHANGED <<coupons, orders, menuitems, offers>>
        ELSE IF fails
        THEN /\ Reply(rest, Response("update_order_status", r.req, call,
                                     500, ServerError, NoDoc, call))
             /\ UNCHANGED <<coupons, orders, menuitems, offers>>
        ELSE IF r.pc = "start"
        THEN /\ orders' = updated
             /\ Goes(rest, [r EXCEPT !.pc = "readback", !.calls = call])
             /\ UNCHANGED <<coupons, menuitems, offers>>
        ELSE /\ Reply(rest, Response("update_order_status", r.req, r.failAt,
                                     200, "",
                                     IF found THEN orders[oid] ELSE NoDoc,
                                     call))
             /\ UNCHANGED <<coupons, orders, menuitems, offers>>

----------------------------------------------------------------------------
(* POST /admin/seed: three to eleven database calls *)

\* The number of sample menu items of seed_data.
SeedMenuSize == 6

\* The next step of the handler on request r.  Each collection is counted
\* (one call) and, when the count is 0, filled (one call per document);
\* in the loop over the samples r.calls - 1 of them are inserted.
SeedData(rest, r, fails) ==
    LET call == r.calls + 1
        to(pc) == [r EXCEPT !.pc = pc, !.calls = call]
        done == Response("seed_data", NoDoc, r.failAt, 200, "",
                         [seeded |-> TRUE], call)
    IN  IF fails
        THEN /\ Reply(rest, Response("seed_data", NoDoc, call, 500,
                                     ServerError, NoDoc, call))
             /\ UNCHANGED <<coupons, orders, menuitems, offers>>
        ELSE CASE r.pc = "start" ->
                    /\ Goes(rest, to(IF menuitems = 0 THEN "menu_insert"
                                     ELSE "offer_count"))
                    /\ UNCHANGED <<coupons, orders, menuitems, offers>>
               [] r.pc = "menu_insert" ->
                    /\ menuitems' = menuitems + 1
                    /\ Goes(rest, to(IF call - 1 = SeedMenuSize
                                     THEN "offer_count" ELSE "menu_insert"))
                    /\ UNCHANGED <<coupons, orders, offers>>
               [] r.pc = "offer_count" ->
                    /\ Goes(rest, to(IF offers = 0 THEN "offer_insert"
                                     ELSE "coupon_count"))
                    /\ UNCHANGED <<coupons, orders, menuitems, offers>>
               [] r.pc = "offer_insert" ->
                    /\ offers' = offers + 1
                    /\ Goes(rest, to("coupon_count"))
                    /\ UNCHANGED <<coupons, orders, menuitems>>
               [] r.pc = "coupon_count" ->
                    /\ IF Len(coupons) = 0
                       THEN Goes(rest, to("coupon_insert"))
                       ELSE Reply(rest, done)
                    /\ UNCHANGED <<coupons, orders, menuitems, offers>>
               [] r.pc = "coupon_insert" ->
                    /\ coupons' = Append(coupons, SeedCoupon)
                    /\ Reply(rest, done)
                    /\ UNCHANGED <<orders, menuitems, offers>>

----------------------------------------------------------------------------
(* POST /admin/menu and DELETE /admin/menu/{item_id}: one database call *)

\* create_document("menuitem", ...): one more menu item.
AdminCreateMenu(rest, r, fails) ==
    IF fails
    THEN /\ Reply(rest, Response("admin_create_menu", r.req, 1, 500,
                                 ServerError, NoDoc, 1))
         /\ UNCHANGED <<coupons, orders, menuitems, offers>>
    ELSE /\ menuitems' = menuitems + 1
         /\ Reply(rest, Response("admin_create_menu", r.req, r.failAt, 200,
                                 "", [id |-> "new"], 1))
         /\ UNCHANGED <<coupons, orders, offers>>

\* item_id is a path string: valid says whether ObjectId(item_id) accepts it,
\* stored whether a menu item has that id.  delete_one removes the item when
\* there is one; the answer is the same when there is none.
AdminDeleteMenu(rest, r, fails) ==
    IF ~r.req.item_id.valid
    THEN /\ Reply(rest, Response("admin_delete_menu", r.req, r.failAt, 400,
                                 "Invalid id", NoDoc, 0))
         /\ UNCHANGED <<coupons, orders, menuitems, offers>>
    ELSE IF fails
    THEN /\ Reply(rest, Response("admin_delete_menu", r.req, 1, 500,
                                 ServerError, NoDoc, 1))
         /\ UNCHANGED <<coupons, orders, menuitems, offers>>
    ELSE /\ menuitems' = IF r.req.item_id.stored /\ menuitems > 0
                         THEN menuitems - 1 ELSE menuitems
         /\ Reply(rest, Response("admin_delete_menu", r.req, r.failAt, 200,
                                 "", [deleted |-> TRUE], 1))
         /\ UNCHANGED <<coupons, orders, offers>>

----------------------------------------------------------------------------
(* Inputs *)

Kebab ==
    [item_id |-> "kebab", quantity |-> 1, unit_price |-> Amt(1),
     total_price |-> Amt(1)]

Biryani ==
    [item_id |-> "biryani", quantity |-> 2, unit_price |-> Amt(150),
     total_price |-> Amt(300)]

Combo ==
    [item_id |-> "combo", quantity |-> 1, unit_price |-> Amt(499),
     total_price |-> Amt(499)]

\* Line items (schema OrderItem): whole-unit prices.
Items == {Kebab, Biryani, Combo}

\* Every item list of at most MaxItems items, the empty one included.
ItemLists == UNION {[1..n -> Items] : n \in 0..MaxItems}

Phones == {"9990001111"}

DeliveryTypes == {"delivery", "takeaway"}

PaymentMethods == {"razorpay", "upi", "cod"}

pakktun15 == <<"p", "a", "k", "k", "t", "u", "n", "1", "5">>

Flat50 == <<"F", "l", "a", "t", "5", "0">>

mega == <<"m", "e", "g", "a">>

FAKE10 == <<"F", "A", "K", "E", "1", "0">>

\* Codes a client sends: in any letter case, known and unknown, and "".
Codes ==
    { <<>>, pakktun15, PAKKTUN15, Flat50, mega, <<"o", "l", "d">>,
      <<"s", "a", "v", "e">>, <<"S", "A", "V", "E">>, <<"z", "e", "r", "o">>,
      FAKE10 }

\* Subtotals a client sends to the preview.
Subtotals ==
    {0, Amt(1), Amt(2), Amt(300), Amt(301), Amt(498), Amt(499), Amt(600)}

ApplyCouponRequest(code, subtotal) ==
    Started("apply_coupon", [code |-> code, subtotal |-> subtotal])

CreateOrderRequest(phone, items, dt, code, pm) ==
    Started("create_order",
            [phone |-> phone, items |-> items, delivery_type |-> dt,
             coupon_code |-> code, payment_method |-> pm])

UpdateOrderStatusRequest(order_id, status) ==
    Started("update_order_status", [order_id |-> order_id, status |-> status])

\* The pricing requests of SpecPricing.
PricingRequests ==
    {ApplyCouponRequest(code, subtotal) :
        code \in Codes, subtotal \in Subtotals}
    \cup
    {CreateOrderRequest(q[1], q[2], q[3], q[4], q[5]) :
        q \in Phones \X ItemLists \X DeliveryTypes \X (Codes \cup {None})
              \X PaymentMethods}

\* The order requests of Spec: an empty cart, a total floored at 0 by a
\* percent coupon, the seeded coupon applied.
StoreOrders ==
    { <<<<>>, "delivery", None, "cod">>,
      <<<<Kebab>>, "takeaway", mega, "upi">>,
      <<<<Biryani, Biryani>>, "delivery", pakktun15, "cod">> }

\* The previews of Spec.
StorePreviews == { <<mega, Amt(1)>>, <<pakktun15, Amt(300)>> }

\* The status of the updates of Spec: the one that also sets eta_minutes.
StoreStatuses == {"out_for_delivery"}

\* The requests of SpecOrders: those, with no coupon, a flat coupon, a
\* discount above the subtotal that the delivery fee outweighs, an unknown
\* code, and two statuses.
EngineOrders ==
    StoreOrders \cup
    { <<<<Biryani>>, "takeaway", None, "cod">>,
      <<<<Kebab, Kebab>>, "delivery", Flat50, "razorpay">>,
      <<<<Kebab>>, "delivery", mega, "upi">> }

EnginePreviews ==
    StorePreviews \cup { <<FAKE10, Amt(600)>>, <<Flat50, Amt(2)>> }

EngineStatuses == {"accepted", "out_for_delivery"}

\* Item ids of DELETE /admin/menu: malformed, of no item, of a stored item.
ItemIds ==
    { [valid |-> FALSE, stored |-> FALSE], [valid |-> TRUE, stored |-> FALSE],
      [valid |-> TRUE, stored |-> TRUE] }

----------------------------------------------------------------------------
(* The system *)

\* A worker is free to take a request.
Free == BagCardinality(inflight) < MaxInFlight

\* The order requests in flight that have not inserted their order yet.
Inserting ==
    BagCardinality([r \in {x \in InFlight : x.op = "create_order"
                                            /\ x.pc = "insert"}
                      |-> inflight[r]])

Init ==
    /\ coupons \in SystemStores
    /\ orders = <<>>
    /\ menuitems = 0
    /\ offers = 0
    /\ inflight = EmptyBag
    /\ last = NoRequest

\* A step of an apply_coupon request in flight.
HandleApplyCoupon ==
    \E r \in InFlight, fails \in BOOLEAN :
       r.op = "apply_coupon" /\ ApplyCoupon(Without(r), r, fails)

\* A step of a create_order request in flight.
HandleCreateOrder ==
    \E r \in InFlight, fails \in BOOLEAN :
       r.op = "create_order" /\ CreateOrder(Without(r), r, fails)

HandleUpdateOrderStatus ==
    \E r \in InFlight, fails \in BOOLEAN :
       r.op = "update_order_status" /\ UpdateOrderStatus(Without(r), r, fails)

HandleSeedData ==
    \E r \in InFlight, fails \in BOOLEAN :
       r.op = "seed_data" /\ SeedData(Without(r), r, fails)

\* A preview arrives: the handler's one call.
AcceptApplyCoupon(previews) ==
    \E q \in previews, fails \in BOOLEAN :
       /\ Free
       /\ ApplyCoupon(inflight, ApplyCouponRequest(q[1], q[2]), fails)

\* An order request arrives and its handler runs to its first database
\* call, while the order store holds fewer than max orders, those about to be
\* inserted included.
AcceptCreateOrder(requests, max) ==
    \E phone \in Phones, q \in requests, fails \in BOOLEAN :
       /\ Free
       /\ Len(orders) + Inserting < max
       /\ CreateOrder(inflight,
                      CreateOrderRequest(phone, q[1], q[2], q[3], q[4]), fails)

\* A status update arrives, for a malformed id, an id of no order (0) or the
\* id of a stored order.
AcceptUpdateOrderStatus(statuses) ==
    \E id \in {MalformedId} \cup {OrderId(n) : n \in {0} \cup DOMAIN orders},
       status \in statuses, fails \in BOOLEAN :
       /\ Free
       /\ UpdateOrderStatus(inflight, UpdateOrderStatusRequest(id, status),
                            fails)

AcceptSeedData ==
    \E fails \in BOOLEAN :
       /\ Free
       /\ SeedData(inflight, Started("seed_data", NoDoc), fails)

AcceptAdminCreateMenu ==
    \E fails \in BOOLEAN :
       /\ Free
       /\ menuitems < MaxMenu
       /\ AdminCreateMenu(inflight, Started("admin_create_menu", NoDoc), fails)

AcceptAdminDeleteMenu ==
    \E id \in ItemIds, fails \in BOOLEAN :
       /\ Free
       /\ id.stored => menuitems > 0
       /\ AdminDeleteMenu(inflight,
                          Started("admin_delete_menu", [item_id |-> id]),
                          fails)

\* A request arrives and its handler runs to its first database call, or a
\* request in flight makes its next call.
Next ==
    \/ AcceptApplyCoupon(StorePreviews)
    \/ AcceptCreateOrder(StoreOrders, MaxSystemOrders)
    \/ HandleCreateOrder
    \/ AcceptUpdateOrderStatus(StoreStatuses)
    \/ HandleUpdateOrderStatus
    \/ AcceptSeedData
    \/ HandleSeedData
    \/ AcceptAdminCreateMenu
    \/ AcceptAdminDeleteMenu

Spec == Init /\ [][Next]_vars

----------------------------------------------------------------------------
(* The order subsystem: previews, order requests and status updates *)

NextOrders ==
    \/ AcceptApplyCoupon(EnginePreviews)
    \/ AcceptCreateOrder(EngineOrders, MaxOrders)
    \/ HandleCreateOrder
    \/ AcceptUpdateOrderStatus(EngineStatuses)
    \/ HandleUpdateOrderStatus

SpecOrders == Init /\ [][NextOrders]_vars

----------------------------------------------------------------------------
(* One pricing request *)

InitPricing ==
    /\ coupons \in CouponStores
    /\ orders = <<>>
    /\ menuitems = 0
    /\ offers = 0
    /\ inflight \in {SetToBag({r}) : r \in PricingRequests}
    /\ last = NoRequest

NextPricing == HandleApplyCoupon \/ HandleCreateOrder

SpecPricing == InitPricing /\ [][NextPricing]_vars

----------------------------------------------------------------------------
(* What the specification expects, stated apart from the handlers *)

IsUpperCase(s) == \A i \in DOMAIN s : UpperChar(s[i]) = s[i]

EqIgnoreCase(a, b) ==
    /\ Len(a) = Len(b)
    /\ \A i \in DOMAIN a : UpperChar(a[i]) = UpperChar(b[i])

\* The active coupons, stored in upper case, that a sent code names whatever
\* its letter case.
ActiveMatches(store, code) ==
    {i \in DOMAIN store :
        /\ store[i].active
        /\ IsUpperCase(store[i].code)
        /\ EqIgnoreCase(store[i].code, code)}

\* The active coupons whose stored code differs from a sent code at most in
\* letter case, however the code is stored.
AnyCaseMatches(store, code) ==
    {i \in DOMAIN store :
        /\ store[i].active
        /\ EqIgnoreCase(store[i].code, code)}

FirstMatch(store, code) ==
    store[CHOOSE i \in ActiveMatches(store, code) :
            \A j \in ActiveMatches(store, code) : i <= j]

\* A code sent with an order counts as present when it is neither None nor "".
Present(code) == code # None /\ code # <<>>

Resolves(store, code) == Present(code) /\ ActiveMatches(store, code) # {}

\* value for a flat coupon, subtotal * value / 100 for a percent coupon.
ExpectedRaw(c, subtotal) ==
    IF c.type = "flat" THEN c.value
    ELSE (subtotal * (c.value \div 100)) \div 1000

ExpectedDiscount(store, code, subtotal) ==
    IF ~Resolves(store, code) THEN 0
    ELSE IF subtotal < FirstMatch(store, code).min_order THEN 0
    ELSE ExpectedRaw(FirstMatch(store, code), subtotal)

RECURSIVE TotalPriceSum(_, _)
\* The sum of the totalPrice of the first n items.
TotalPriceSum(items, n) ==
    IF n = 0 THEN 0 ELSE items[n].total_price + TotalPriceSum(items, n - 1)

ExpectedFee(delivery_type) ==
    IF delivery_type = "delivery" THEN 20000 ELSE 0

\* The coupon store as it was when it held its first k documents (documents
\* are only ever appended to it).
Earlier(store, k) == SubSeq(store, 1, k)

\* The latest step answered an order request with 200.
OrderCreated == last.op = "create_order" /\ last.status = 200

\* The latest step answered a preview while the store was available.
PreviewAnswered == last.op = "apply_coupon" /\ last.failAt = 0

\* The order requests in flight that have inserted their order.
ReadingBack ==
    {r \in InFlight : r.op = "create_order" /\ r.pc = "readback"}

\* The number of order requests in flight in the bag b that have inserted
\* their order.
Inserted(b) ==
    BagCardinality([r \in {x \in BagToSet(b) : x.op = "create_order"
                                               /\ x.pc = "readback"}
                      |-> b[r]])

----------------------------------------------------------------------------
(* Claims *)

\* C1: whatever seed, preview, order and status-update requests were served,
\* in whatever interleaving, every order in the order store has total >= 0
\* and subtotal the sum of its items, and its discount and total are
\* round(d, 2) and round(max(0, subtotal - d + deliveryFee), 2) for the
\* discount d of the pricing rules on the coupon store as it was at some
\* moment; the order a 200 answer carries is the stored one with its id.
C1_TotalFlooredAndComputed ==
    /\ \A i \in DOMAIN orders :
          LET o == orders[i]
          IN  /\ o.total >= 0
              /\ o.id = i
              /\ o.subtotal = TotalPriceSum(o.items, Len(o.items))
              /\ \E k \in 0..Len(coupons) :
                    LET d == ExpectedDiscount(Earlier(coupons, k),
                                              o.coupon_code, o.subtotal)
                        t == o.subtotal - d + o.delivery_fee
                    IN  /\ o.discount = Round2(d)
                        /\ o.total = Round2(IF t < 0 THEN 0 ELSE t)
    /\ OrderCreated =>
          /\ last.body.order.id \in DOMAIN orders
          /\ last.body.order = orders[last.body.order.id]
          /\ last.body.order.items = last.req.items

\* C1 witness: an order whose total was floored at 0 is in the store, its
\* status updated, while a seed request is in flight.
C1_Witness ==
    /\ last.op = "update_order_status"
    /\ last.status = 200
    /\ \E r \in InFlight : r.op = "seed_data"
    /\ \E i \in DOMAIN orders :
          /\ orders[i].total = 0
          /\ orders[i].discount > orders[i].subtotal
          /\ orders[i].status = "out_for_delivery"

\* C2: an order request with an empty item list is answered 400 "No items"
\* with no database call made (so no coupon lookup) and no order added, and
\* its handler never gets past its first statement; and with the store
\* available no other order request fails.
C2_EmptyCartRejected ==
    /\ \A r \in InFlight :
          (r.op = "create_order" /\ r.req.items = <<>>) =>
             /\ r.pc = "start"
             /\ r.calls = 0
             /\ orders = <<>>
    /\ (last.op = "create_order" /\ last.req.items = <<>>) =>
          /\ last.status = 400
          /\ last.detail = "No items"
          /\ last.dbcalls = 0
          /\ orders = <<>>
    /\ (last.op = "create_order" /\ last.failAt = 0
                                 /\ last.req.items # <<>>) =>
          /\ last.status = 200
          /\ Len(orders) = 1

\* C2 witness: an empty cart was rejected although it carried a coupon code.
C2_Witness ==
    /\ last.op = "create_order"
    /\ last.req.items = <<>>
    /\ Present(last.req.coupon_code)
    /\ last.status = 400
    /\ orders = <<>>

\* C3: when the code of an order or of a preview resolves to an active coupon
\* and subtotal >= minOrder, the discount is round(value, 2) for a flat
\* coupon and round(subtotal * value / 100, 2) for a percent coupon; and
\* subtotal 600 with PAKKTUN15 (percent 15, minOrder 499) and delivery gives
\* discount 90.00, deliveryFee 20 and total 530.00.
C3_DiscountByKind ==
    /\ (OrderCreated /\ Resolves(coupons, last.req.coupon_code)) =>
          LET o == last.body.order
              c == FirstMatch(coupons, last.req.coupon_code)
          IN  o.subtotal >= c.min_order =>
                 /\ c.type = "flat" => o.discount = Round2(c.value)
                 /\ c.type = "percent" =>
                       o.discount =
                          Round2((o.subtotal * (c.value \div 100)) \div 1000)
    /\ (PreviewAnswered /\ ActiveMatches(coupons, last.req.code) # {}) =>
          LET c == FirstMatch(coupons, last.req.code)
              sub == last.req.subtotal
          IN  sub >= c.min_order =>
                 /\ last.status = 200
                 /\ last.body.applied = TRUE
                 /\ c.type = "flat" => last.body.discount = Round2(c.value)
                 /\ c.type = "percent" =>
                       last.body.discount =
                          Round2((sub * (c.value \div 100)) \div 1000)
    /\ (/\ OrderCreated
        /\ coupons # <<>>
        /\ coupons[1] = SeedCoupon
        /\ EqIgnoreCase(last.req.coupon_code, PAKKTUN15)
        /\ last.body.order.subtotal = 600000
        /\ last.req.delivery_type = "delivery") =>
          /\ last.body.order.discount = 90000
          /\ last.body.order.delivery_fee = 20000
          /\ last.body.order.total = 530000

\* C3 witness: the concrete scenario, sent with the code in lower case.
C3_Witness ==
    /\ OrderCreated
    /\ last.req.coupon_code = pakktun15
    /\ last.body.order.subtotal = 600000
    /\ last.body.order.discount = 90000
    /\ last.body.order.total = 530000

\* C4: with the store available, an order with a non-empty cart whose code
\* is absent, or names no active coupon, or names an active coupon whose
\* minOrder exceeds the subtotal, is created without error with discount 0
\* and total round(subtotal + deliveryFee, 2), subtotal being the sum of the
\* items' totalPrice.
C4_NoCouponNoDiscount ==
    (/\ last.op = "create_order"
     /\ last.failAt = 0
     /\ last.req.items # <<>>
     /\ \/ ~Resolves(coupons, last.req.coupon_code)
        \/ FirstMatch(coupons, last.req.coupon_code).min_order
              > TotalPriceSum(last.req.items, Len(last.req.items))) =>
       /\ last.status = 200
       /\ last.body.order.subtotal
             = TotalPriceSum(last.req.items, Len(last.req.items))
       /\ last.body.order.discount = 0
       /\ last.body.order.total
             = Round2(last.body.order.subtotal
                      + ExpectedFee(last.req.delivery_type))
       /\ orders = <<last.body.order>>

\* C4 witness: an order naming an active coupon whose minOrder it misses.
C4_Witness ==
    /\ OrderCreated
    /\ Resolves(coupons, last.req.coupon_code)
    /\ FirstMatch(coupons, last.req.coupon_code).min_order
          > last.body.order.subtotal
    /\ last.body.order.discount = 0
    /\ last.body.order.total = 320000

\* C5: with the store available the preview has three outcomes: 404 exactly
\* when no active coupon matches the code; applied = false, discount 0 and
\* reason "Minimum order not met" exactly when one matches and subtotal <
\* minOrder; applied = true with the computed discount otherwise.
C5_PreviewOutcomes ==
    PreviewAnswered =>
       LET found == ActiveMatches(coupons, last.req.code) # {}
           c == FirstMatch(coupons, last.req.code)
           sub == last.req.subtotal
       IN  /\ last.status \in {200, 404}
           /\ last.status = 404 <=> ~found
           /\ last.status = 404 => last.detail = "Coupon not found"
           /\ last.status = 200 =>
                 /\ last.body.applied = FALSE <=> sub < c.min_order
                 /\ last.body.applied = FALSE =>
                       /\ last.body.discount = 0
                       /\ last.body.reason = "Minimum order not met"
                 /\ last.body.applied = TRUE =>
                       last.body.discount = Round2(ExpectedRaw(c, sub))

\* C5 witness: a preview below the minimum order of an active coupon.
C5_Witness ==
    /\ PreviewAnswered
    /\ last.status = 200
    /\ last.body.applied = FALSE
    /\ last.body.reason = "Minimum order not met"
    /\ ActiveMatches(coupons, last.req.code) # {}

C7_TotalZeroAboveSubtotal ==
    (/\ OrderCreated
     /\ ExpectedDiscount(coupons, last.req.coupon_code,
                         last.body.order.subtotal)
           > last.body.order.subtotal) =>
       /\ last.body.order.total = 0
       /\ last.body.order.discount > last.body.order.subtotal

\* C7, amended: an eligible coupon whose discount reaches subtotal +
\* deliveryFee makes the total 0; one whose discount exceeds only the subtotal
\* leaves total = round(subtotal - discount + deliveryFee, 2) >= 0; in both
\* cases the recorded discount is the uncapped discount rounded to 2 decimals,
\* not less than the subtotal.
C7_TotalFlooredAboveSubtotal ==
    (/\ OrderCreated
     /\ ExpectedDiscount(coupons, last.req.coupon_code,
                         last.body.order.subtotal)
           > last.body.order.subtotal) =>
       LET o == last.body.order
           d == ExpectedDiscount(coupons, last.req.coupon_code, o.subtotal)
       IN  /\ o.total >= 0
           /\ d >= o.subtotal + o.delivery_fee => o.total = 0
           /\ d < o.subtotal + o.delivery_fee =>
                 o.total = Round2(o.subtotal - d + o.delivery_fee)
           /\ o.discount = Round2(d)
           /\ o.discount >= o.subtotal

\* C7 witness: a percent coupon above 100 on a takeaway order.
C7_Witness ==
    /\ OrderCreated
    /\ Resolves(coupons, last.req.coupon_code)
    /\ FirstMatch(coupons, last.req.coupon_code).type = "percent"
    /\ FirstMatch(coupons, last.req.coupon_code).value > 100000
    /\ last.body.order.discount > last.body.order.subtotal
    /\ last.body.order.total = 0

\* C8: when the coupon lookup raises (store unavailable), the order request
\* that carries a coupon code and the preview are answered with a server
\* error after that one call: not 404, not 200, no order is persisted, and
\* no handler goes on after the call that raised.
C8_LookupFailureSurfaces ==
    /\ \A r \in InFlight : r.failAt = 0
    /\ (/\ last.failAt = 1
        /\ \/ last.op = "apply_coupon"
           \/ /\ last.op = "create_order"
              /\ last.req.items # <<>>
              /\ Present(last.req.coupon_code)) =>
          /\ last.status = 500
          /\ last.dbcalls = 1
          /\ orders = <<>>

\* C8 witness: an order with a coupon code whose lookup raised.
C8_Witness ==
    /\ last.op = "create_order"
    /\ last.failAt = 1
    /\ Present(last.req.coupon_code)
    /\ last.req.items # <<>>
    /\ last.status = 500
    /\ orders = <<>>

\* C9: the deliveryFee of an order is 0 for takeaway and 20 for delivery,
\* whatever the items, the subtotal and the coupon.
C9_DeliveryFeeByMode ==
    /\ \A i \in DOMAIN orders :
          /\ orders[i].delivery_type = "takeaway" =>
                orders[i].delivery_fee = 0
          /\ orders[i].delivery_type = "delivery" =>
                orders[i].delivery_fee = 20000
    /\ OrderCreated =>
          /\ last.body.order.delivery_type = last.req.delivery_type
          /\ last.body.order.delivery_fee
                = ExpectedFee(last.req.delivery_type)

\* C9 witness: a takeaway order with a coupon applied, and so no fee.
C9_Witness ==
    /\ OrderCreated
    /\ last.req.delivery_type = "takeaway"
    /\ last.body.order.discount > 0
    /\ last.body.order.delivery_fee = 0

\* C10: in any interleaving of previews and order requests, every step of
\* one of them, answered or failed, leaves the coupon store as it was; a
\* preview leaves the order store as it was too; a step of an order request
\* changes no order the store held and appends at most one, exactly when the
\* request passes its insert; and the 200 answer of an order request comes
\* from a request that has inserted, and carries the order with the id it
\* inserted.
C10_PricingFrame ==
    [][(\/ last'.op \in {"apply_coupon", "create_order"}
        \/ \E r \in BagToSet(inflight') : r.op = "create_order"
                                           /\ CopiesIn(r, inflight')
                                               > CopiesIn(r, inflight)) =>
          /\ coupons' = coupons
          /\ last'.op = "apply_coupon" => orders' = orders
          /\ Len(orders') \in {Len(orders), Len(orders) + 1}
          /\ SubSeq(orders', 1, Len(orders)) = orders
          /\ Len(orders') = Len(orders) + 1
                <=> Inserted(inflight') = Inserted(inflight) + 1
          /\ Len(orders') = Len(orders) + 1 =>
                \E r \in BagToSet(inflight') :
                   /\ r.op = "create_order"
                   /\ r.pc = "readback"
                   /\ r.oid = Len(orders')
                   /\ CopiesIn(r, inflight') = CopiesIn(r, inflight) + 1
                   /\ orders'[r.oid].items = r.req.items
          /\ (last'.op = "create_order" /\ last'.status = 200) =>
                /\ orders' = orders
                /\ Inserted(inflight') = Inserted(inflight) - 1
                /\ \E r \in ReadingBack :
                      /\ r.req = last'.req
                      /\ r.oid = last'.body.order.id
                      /\ last'.body.order = orders[r.oid]
          /\ (last'.op = "create_order" /\ last'.status = 400) =>
                orders' = orders]_vars

\* C10 witness: an order request is answered with the first order of the
\* store, a coupon applied, after another request appended a second one.
C10_Witness ==
    /\ OrderCreated
    /\ Len(orders) = 2
    /\ last.body.order.id = 1
    /\ last.body.order.discount > 0
    /\ coupons # <<>>

====
